---- MODULE Spec2Model ----
(***************************************************************************)
(* Model of readthedocs/core/resolver.py (ResolverBase).                   *)
(*                                                                         *)
(* Python strings are sequences of one-character strings, so that          *)
(* str.replace, str.lstrip, str.format and the `in` substring test are     *)
(* computed rather than assumed.  Python's None is the value None for      *)
(* strings, NoProject for projects, NoDomain for Domain objects.           *)
(***************************************************************************)
EXTENDS Integers, Sequences, FiniteSets, TLC

\* ------------------------------------------------------------------ bounds
NumProjects == 4
MaxSlashes == 2

Projects == 1..NumProjects
\* the ascent is stopped artificially after this many calls (never reached
\* by the code as written: the visited set holds at most NumProjects)
MaxCalls == NumProjects + 2

\* ------------------------------------------------------- values and strings
NoProject == 0
None == <<"None">>

Truthy(s) == s # None /\ s # << >>

RECURSIVE Repeat(_, _)
Repeat(c, n) == IF n = 0 THEN << >> ELSE <<c>> \o Repeat(c, n - 1)

\* str.replace('_', '-')
ReplaceUnderscore(s) == [i \in 1..Len(s) |-> IF s[i] = "_" THEN "-" ELSE s[i]]

\* str.lstrip('/')
RECURSIVE LStrip(_)
LStrip(s) == IF s # << >> /\ Head(s) = "/" THEN LStrip(Tail(s)) ELSE s

\* Python's `sub in s` on strings
StrIn(sub, s) ==
    \E i \in 0..(Len(s) - Len(sub)) : SubSeq(s, i + 1, i + Len(sub)) = sub

Digit(p) == <<ToString(p)>>

\* ------------------------------------------------- the records the code reads
\* Project.slug: some with one underscore, some with two, some with none
Slug(p) ==
    IF p % 3 = 1 THEN <<"p", "_">> \o Digit(p)
    ELSE IF p % 3 = 2 THEN <<"p", "_">> \o Digit(p) \o <<"_", "x">>
    ELSE <<"p">> \o Digit(p)

\* Project.language
Language(p) == <<"l">> \o Digit(p)

\* Project.get_default_version()
DefaultVersion == <<"l", "t">>

\* ProjectRelationship.alias of the relation whose child is p
Alias(p) == <<"s">> \o Digit(p)

\* Domain.domain of the canonical custom domain of p; those of odd projects
\* lie under the public domain
Hostname(p) ==
    IF p % 2 = 1 THEN <<"c">> \o Digit(p) \o <<".", "i", "o">>
    ELSE <<"c">> \o Digit(p) \o <<".", "c", "o", "m">>

NoDomain == [pk |-> 0, domain |-> << >>, https |-> FALSE]
CustomDomain(p, https) == [pk |-> p, domain |-> Hostname(p), https |-> https]
\* a cname handed in by the caller of resolve_path
CallerCname == [pk |-> NumProjects + 1, domain |-> <<"c", "n">>, https |-> FALSE]

NoRelation == [parent |-> NoProject, alias |-> None]

\* settings that the model keeps fixed
PRODUCTION_DOMAIN == <<"r", ".", "o", "r", "g">>
RTD_EXTERNAL_VERSION_DOMAIN == <<"e", "x", "t">>
PublicDomainName == <<"i", "o">>

EXTERNAL == "external"
BRANCH == "branch"
ABSENT == "absent"
PrSlug == <<"p", "r">>

HTTP == <<"h", "t", "t", "p">>
HTTPS == <<"h", "t", "t", "p", "s">>

VARIABLES
    \* the world the resolver reads
    main_language_project,  \* Project.main_language_project, NoProject if none
    parent_relationship,    \* parent of Project.get_parent_relationship(), NoProject if none
    domains,                \* Project.get_canonical_custom_domain(), NoDomain if none
    single_version,         \* Project.single_version
    versions,               \* type of the project's version of each slug
    settings,               \* USE_SUBDOMAIN, PUBLIC_DOMAIN, PUBLIC_DOMAIN_USES_HTTPS
    \* the call in progress
    op, pc, args,
    \* _get_canonical_project
    canon_input, canon_project, projects, calls, canonical_project,
    round, first_canonical,
    \* resolve
    external, domain, protocol, path, url, walked

world == <<main_language_project, parent_relationship, domains,
           single_version, versions, settings>>
canon == <<canon_input, canon_project, projects, calls, canonical_project,
           round, first_canonical>>
results == <<external, domain, protocol, path, url, walked>>
vars == <<world, op, pc, args, canon, results>>

\* ------------------------------------------------------------ the worlds
\* A hierarchy is a chain NumProjects -> NumProjects-1 -> ... of h hops, each
\* hop a translation link ("T"), a subproject link ("S") or a translation
\* link next to a subproject relation that points elsewhere ("TS"); the top
\* of the chain has no link or, in a cyclic hierarchy, links back to a
\* project of the chain.  Projects above the chain are unrelated.
Kinds == {"T", "S", "TS"}
Other(t) == (t % NumProjects) + 1

LinkTarget(q, h, top) ==
    IF q > NumProjects - h THEN q - 1
    ELSE IF q = NumProjects - h THEN top
    ELSE NoProject

MkMainLanguageProject(h, kind, top) ==
    [q \in Projects |->
        IF kind[q] \in {"T", "TS"} THEN LinkTarget(q, h, top) ELSE NoProject]

MkParentRelationship(h, kind, top) ==
    [q \in Projects |->
        LET t == LinkTarget(q, h, top) IN
        IF t = NoProject THEN NoProject
        ELSE IF kind[q] = "S" THEN t
        ELSE IF kind[q] = "TS" THEN Other(t)
        ELSE NoProject]

Tops(h, cyclic) ==
    {NoProject} \cup (IF cyclic THEN (NumProjects - h)..NumProjects ELSE {})

Hierarchies(kinds, cyclic) ==
    UNION { { [mlp |-> MkMainLanguageProject(h, k, t),
               rel |-> MkParentRelationship(h, k, t)] :
                 k \in [Projects -> kinds], t \in Tops(h, cyclic) } :
            h \in 0..(NumProjects - 1) }

DomainTables(owners, https) ==
    { [p \in Projects |-> IF p \in D THEN CustomDomain(p, https) ELSE NoDomain] :
        D \in owners }

\* domains on every, no, every odd or every even project
DomainPatterns ==
    { {}, Projects, {p \in Projects : p % 2 = 1}, {p \in Projects : p % 2 = 0} }

SingleVersionTables == { [p \in Projects |-> p % 2 = b] : b \in 0..1 }

VersionSlugs == {DefaultVersion, PrSlug}
VersionTables(types) ==
    { [p \in Projects |-> [s \in VersionSlugs |->
          IF s = PrSlug THEN t ELSE BRANCH]] : t \in types }

Settings(use, public, https) ==
    { [USE_SUBDOMAIN |-> u, PUBLIC_DOMAIN |-> d, PUBLIC_DOMAIN_USES_HTTPS |-> s] :
        u \in use, d \in public, s \in https }

NoArgs ==
    [project |-> NoProject, require_https |-> FALSE, filename |-> << >>,
     query_params |-> << >>, external |-> "None", version_slug |-> None, language |-> None,
     single_version |-> FALSE, subdomain |-> None, cname |-> NoDomain]

NoWalk ==
    [current_project |-> NoProject, project_slug |-> << >>, language |-> None,
     subproject_slug |-> None, cname |-> NoDomain, broke |-> FALSE]

Idle ==
    /\ op = "none" /\ pc = "idle" /\ args = NoArgs
    /\ canon_input = NoProject /\ canon_project = NoProject
    /\ projects = {} /\ calls = 0 /\ canonical_project = NoProject
    /\ round = 0 /\ first_canonical = NoProject
    /\ external = FALSE /\ domain = << >> /\ protocol = << >>
    /\ path = << >> /\ url = << >> /\ walked = NoWalk

World(hierarchies, domainTables, singleVersions, versionTables, settingses) ==
    /\ \E H \in hierarchies :
          /\ main_language_project = H.mlp
          /\ parent_relationship = H.rel
    /\ domains \in domainTables
    /\ single_version \in singleVersions
    /\ versions \in versionTables
    /\ settings \in settingses

\* ------------------------------------------------ _get_canonical_project
get_parent_relationship(p) ==
    IF parent_relationship[p] = NoProject THEN NoRelation
    ELSE [parent |-> parent_relationship[p], alias |-> Alias(p)]

get_canonical_custom_domain(p) == domains[p]

\* variant: the subproject relation is looked at before the translation link
NextProjectRelationFirst(project) ==
    LET relation == get_parent_relationship(project) IN
    IF relation # NoRelation THEN relation.parent
    ELSE main_language_project[project]

\* lines 217-223
NextProject(project) ==
    IF main_language_project[project] # NoProject
    THEN main_language_project[project]
    ELSE LET relation == get_parent_relationship(project) IN
         IF relation # NoRelation THEN relation.parent ELSE NoProject

\* variant: the visited set is not consulted
ShouldRecurseUnguarded(next_project, visited) ==
    next_project # NoProject

\* variant: the ascent is cut after one hop
ShouldRecurseOnce(next_project, visited) ==
    next_project # NoProject /\ next_project \notin visited
        /\ Cardinality(visited) < 2

\* line 225
ShouldRecurse(next_project, visited) ==
    next_project # NoProject /\ next_project \notin visited

\* the first call of an ascent, made by a caller outside the resolver
GetCanonicalProject ==
    /\ pc = "idle"
    /\ \E project \in Projects :
          /\ args' = [NoArgs EXCEPT !.project = project]
          /\ canon_input' = project /\ canon_project' = project
    /\ op' = "canonical" /\ pc' = "canon"
    /\ projects' = {} /\ calls' = 0 /\ round' = 1
    /\ UNCHANGED <<world, canonical_project, first_canonical, results>>

\* one invocation of _get_canonical_project: lines 212-227
CanonStep ==
    /\ pc = "canon"
    /\ calls < MaxCalls
    /\ LET visited == projects \cup {canon_project}
           next_project == NextProject(canon_project)
       IN /\ projects' = visited
          /\ calls' = calls + 1
          /\ IF ShouldRecurse(next_project, visited)
             THEN /\ canon_project' = next_project
                  /\ UNCHANGED <<pc, canonical_project>>
             ELSE /\ canonical_project' = canon_project
                  /\ pc' = "returned"
                  /\ UNCHANGED canon_project
    /\ UNCHANGED <<world, op, args, canon_input, round, first_canonical, results>>

\* _get_canonical_project applied to its own result
Recanonicalize ==
    /\ op = "canonical" /\ pc = "returned" /\ round = 1
    /\ pc' = "canon" /\ round' = 2
    /\ first_canonical' = canonical_project
    /\ canon_input' = canonical_project /\ canon_project' = canonical_project
    /\ projects' = {} /\ calls' = 0
    /\ UNCHANGED <<world, op, args, canonical_project, results>>

InitCanon ==
    /\ World(Hierarchies(Kinds, TRUE), DomainTables({{}}, FALSE),
             {[p \in Projects |-> FALSE]}, VersionTables({ABSENT}),
             Settings({FALSE}, {None}, {FALSE}))
    /\ Idle

NextCanon ==
    \/ GetCanonicalProject
    \/ CanonStep
    \/ Recanonicalize

SpecCanon == InitCanon /\ [][NextCanon]_vars

\* ------------------------------------------------------------ resolve_path
\* lines 270-272
use_subdomain ==
    settings.USE_SUBDOMAIN /\ settings.PUBLIC_DOMAIN # None

\* variant: one leading slash is removed, not all of them
fix_filename_once(project, filename) ==
    IF filename # << >> /\ Head(filename) = "/" THEN Tail(filename) ELSE filename

\* lines 250-257
fix_filename(project, filename) == LStrip(filename)

DocsPrefix == <<"/", "d", "o", "c", "s", "/">>
ProjectsPrefix == <<"p", "r", "o", "j", "e", "c", "t", "s", "/">>

\* lines 55-89
base_resolve_path(project_slug, filename, version_slug, language, single_version_, subproject_slug, subdomain, cname) ==
    LET root == IF Truthy(subdomain) \/ cname # NoDomain \/ use_subdomain
                THEN <<"/">>
                ELSE DocsPrefix \o project_slug \o <<"/">>
        sub  == IF Truthy(subproject_slug)
                THEN ProjectsPrefix \o subproject_slug \o <<"/">>
                ELSE << >>
        rest == IF single_version_
                THEN filename
                ELSE language \o <<"/">> \o version_slug \o <<"/">> \o filename
    IN root \o sub \o rest

\* line 113: range(0, 2)
WalkIterations == 2

\* variant: a subproject hop keeps the cname when the parent has no domain
WalkStepKeepCname(w, project) ==
    IF w.broke THEN w
    ELSE
    LET mlp == main_language_project[w.current_project]
        relation == get_parent_relationship(w.current_project)
    IN IF mlp # NoProject
       THEN [w EXCEPT !.current_project = mlp,
                      !.project_slug = Slug(mlp),
                      !.language = Language(project),
                      !.subproject_slug = None]
       ELSE IF relation # NoRelation
       THEN [w EXCEPT !.current_project = relation.parent,
                      !.project_slug = Slug(relation.parent),
                      !.subproject_slug = relation.alias,
                      !.cname = IF domains[relation.parent] # NoDomain
                               THEN domains[relation.parent] ELSE w.cname]
       ELSE [w EXCEPT !.broke = TRUE]

\* variant: a translation hop takes the language of the translation parent
WalkStepParentLanguage(w, project) ==
    IF w.broke THEN w
    ELSE
    LET mlp == main_language_project[w.current_project]
        relation == get_parent_relationship(w.current_project)
    IN IF mlp # NoProject
       THEN [w EXCEPT !.current_project = mlp,
                      !.project_slug = Slug(mlp),
                      !.language = Language(mlp),
                      !.subproject_slug = None]
       ELSE IF relation # NoRelation
       THEN [w EXCEPT !.current_project = relation.parent,
                      !.project_slug = Slug(relation.parent),
                      !.subproject_slug = relation.alias,
                      !.cname = domains[relation.parent]]
       ELSE [w EXCEPT !.broke = TRUE]

\* variant: a translation hop leaves the pending alias in place
WalkStepKeepAlias(w, project) ==
    IF w.broke THEN w
    ELSE
    LET mlp == main_language_project[w.current_project]
        relation == get_parent_relationship(w.current_project)
    IN IF mlp # NoProject
       THEN [w EXCEPT !.current_project = mlp,
                      !.project_slug = Slug(mlp),
                      !.language = Language(project)]
       ELSE IF relation # NoRelation
       THEN [w EXCEPT !.current_project = relation.parent,
                      !.project_slug = Slug(relation.parent),
                      !.subproject_slug = relation.alias,
                      !.cname = domains[relation.parent]]
       ELSE [w EXCEPT !.broke = TRUE]

\* lines 114-128: one iteration of the walk; broke records the break
WalkStep(w, project) ==
    IF w.broke THEN w
    ELSE
    LET mlp == main_language_project[w.current_project]
        relation == get_parent_relationship(w.current_project)
    IN IF mlp # NoProject
       THEN [w EXCEPT !.current_project = mlp,
                      !.project_slug = Slug(mlp),
                      !.language = Language(project),
                      !.subproject_slug = None]
       ELSE IF relation # NoRelation
       THEN [w EXCEPT !.current_project = relation.parent,
                      !.project_slug = Slug(relation.parent),
                      !.subproject_slug = relation.alias,
                      !.cname = domains[relation.parent]]
       ELSE [w EXCEPT !.broke = TRUE]

RECURSIVE WalkLoop(_, _, _)
WalkLoop(w, project, n) ==
    IF n = 0 THEN w ELSE WalkLoop(WalkStep(w, project), project, n - 1)

\* lines 102-128: the defaults and the walk
Walk(a) ==
    LET project == a.project
        cname == IF a.cname # NoDomain THEN a.cname
                 ELSE get_canonical_custom_domain(project)
        language == IF Truthy(a.language) THEN a.language ELSE Language(project)
    IN WalkLoop([current_project |-> project,
                 project_slug |-> Slug(project),
                 language |-> language,
                 subproject_slug |-> None,
                 cname |-> cname,
                 broke |-> FALSE], project, WalkIterations)

\* line 130
SingleVersion(a) == single_version[a.project] \/ a.single_version

\* lines 91-141
resolve_path(a) ==
    LET w == Walk(a)
        version_slug == IF Truthy(a.version_slug) THEN a.version_slug
                        ELSE DefaultVersion
    IN base_resolve_path(w.project_slug,
                         fix_filename(a.project, a.filename),
                         version_slug, w.language, SingleVersion(a),
                         w.subproject_slug, a.subdomain, w.cname)

\* resolve_path called on its own
ResolvePath(argset) ==
    /\ pc = "idle"
    /\ op' = "resolve_path" /\ pc' = "done"
    /\ \E a \in argset :
          /\ args' = a
          /\ walked' = Walk(a)
          /\ path' = resolve_path(a)
    /\ UNCHANGED <<world, canon, external, domain, protocol, url>>

\* ----------------------------------------------------------------- resolve
\* lines 241-248
is_external(project, version_slug) ==
    versions[project][version_slug] = EXTERNAL

\* lines 229-234
get_external_subdomain(project, version_slug) ==
    ReplaceUnderscore(Slug(project)) \o <<"-", "-">> \o version_slug
        \o <<".">> \o RTD_EXTERNAL_VERSION_DOMAIN

\* lines 236-239
get_project_subdomain(project) ==
    ReplaceUnderscore(Slug(project)) \o <<".">> \o settings.PUBLIC_DOMAIN

\* lines 259-268
use_custom_domain(custom_domain) == custom_domain # NoDomain

\* lines 158-161
VersionSlugOf(a) ==
    IF a.version_slug = None THEN DefaultVersion ELSE a.version_slug

\* variant: the custom domain is looked at before the external flag
SelectDomainCustomFirst(external_, canonical, version_slug) ==
    LET custom_domain == get_canonical_custom_domain(canonical) IN
    IF use_custom_domain(custom_domain) THEN custom_domain.domain
    ELSE IF external_ THEN get_external_subdomain(canonical, version_slug)
    ELSE IF use_subdomain THEN get_project_subdomain(canonical)
    ELSE PRODUCTION_DOMAIN

\* lines 169-176
SelectDomain(external_, canonical, version_slug) ==
    LET custom_domain == get_canonical_custom_domain(canonical) IN
    IF external_ THEN get_external_subdomain(canonical, version_slug)
    ELSE IF use_custom_domain(custom_domain) THEN custom_domain.domain
    ELSE IF use_subdomain THEN get_project_subdomain(canonical)
    ELSE PRODUCTION_DOMAIN

\* variant: the test that a public domain is configured is left out
UseHttpsProtocolAnyPublic(canonical, require_https, domain_) ==
    LET custom_domain == get_canonical_custom_domain(canonical) IN
    \/ use_custom_domain(custom_domain) /\ custom_domain.https
    \/ require_https
    \/ /\ settings.PUBLIC_DOMAIN_USES_HTTPS
       /\ \/ StrIn(settings.PUBLIC_DOMAIN, domain_)
          \/ StrIn(RTD_EXTERNAL_VERSION_DOMAIN, domain_)

\* lines 178-190
UseHttpsProtocol(canonical, require_https, domain_) ==
    LET custom_domain == get_canonical_custom_domain(canonical) IN
    \/ use_custom_domain(custom_domain) /\ custom_domain.https
    \/ require_https
    \/ /\ settings.PUBLIC_DOMAIN_USES_HTTPS
       /\ Truthy(settings.PUBLIC_DOMAIN)
       /\ \/ StrIn(settings.PUBLIC_DOMAIN, domain_)
          \/ StrIn(RTD_EXTERNAL_VERSION_DOMAIN, domain_)

\* urllib.parse.urlunparse((scheme, netloc, path, '', query, ''))
urlunparse(scheme, netloc, path_, query) ==
    scheme \o <<":", "/", "/">> \o netloc \o path_
        \o (IF query # << >> THEN <<"?">> \o query ELSE << >>)

\* lines 158-165: up to the call of _get_canonical_project
Resolve(argset) ==
    /\ pc = "idle"
    /\ op' = "resolve" /\ pc' = "canon"
    /\ \E a \in argset :
          /\ args' = a
          /\ external' = IF a.external = "None"
                         THEN is_external(a.project, VersionSlugOf(a))
                         ELSE a.external = "True"
          /\ canon_input' = a.project /\ canon_project' = a.project
    /\ projects' = {} /\ calls' = 0 /\ round' = 1
    /\ UNCHANGED <<world, canonical_project, first_canonical,
                   domain, protocol, path, url, walked>>

\* lines 166-191
ResolveDomain ==
    /\ op = "resolve" /\ pc = "returned"
    /\ pc' = "path"
    /\ domain' = SelectDomain(external, canonical_project, VersionSlugOf(args))
    /\ protocol' = IF UseHttpsProtocol(canonical_project, args.require_https,
                                       domain')
                   THEN HTTPS ELSE HTTP
    /\ UNCHANGED <<world, op, args, canon, external, path, url, walked>>

\* lines 193-196
ResolveUrl ==
    /\ op = "resolve" /\ pc = "path"
    /\ pc' = "done"
    /\ walked' = Walk(args)
    /\ path' = resolve_path(args)
    /\ url' = urlunparse(protocol, domain, path', args.query_params)
    /\ UNCHANGED <<world, op, args, canon, external, domain, protocol>>

NextResolve(argset) ==
    \/ Resolve(argset)
    \/ CanonStep
    \/ ResolveDomain
    \/ ResolveUrl

\* ------------------------------------------------------ the specifications
Filenames ==
    { Repeat("/", k) \o base :
        k \in 0..MaxSlashes, base \in {<< >>, <<"x">>, <<"a", "/", "b">>} }

Args(ps, https, fs, exts, vs, ls, svs, subs, cnames) ==
    { [project |-> p, require_https |-> r, filename |-> f, query_params |-> << >>,
       external |-> e, version_slug |-> v, language |-> l,
       single_version |-> sv, subdomain |-> sd, cname |-> c] :
        p \in ps, r \in https, f \in fs, e \in exts, v \in vs, l \in ls,
        sv \in svs, sd \in subs, c \in cnames }

\* resolve(): every shape of hierarchy, default path arguments
InitResolve ==
    /\ World(Hierarchies(Kinds, TRUE), DomainTables(DomainPatterns, FALSE),
             {[p \in Projects |-> FALSE]}, VersionTables({ABSENT}),
             Settings(BOOLEAN, {PublicDomainName}, {FALSE}))
    /\ Idle

ResolveArgs ==
    Args(Projects, {FALSE}, {<<"x">>}, {"None"}, {None}, {None}, {FALSE},
         {None}, {NoDomain})

Next == NextResolve(ResolveArgs)

Spec == InitResolve /\ [][Next]_vars

\* resolve(): the domain and the protocol
InitDomain ==
    /\ World(Hierarchies({"T", "S"}, FALSE),
             DomainTables(DomainPatterns, FALSE) \cup DomainTables(DomainPatterns, TRUE),
             {[p \in Projects |-> FALSE]},
             VersionTables({ABSENT, BRANCH, EXTERNAL}),
             Settings(BOOLEAN, {None, PublicDomainName}, BOOLEAN))
    /\ Idle

DomainArgs ==
    Args(Projects, BOOLEAN, {<<"x">>}, {"None", "True", "False"},
         {None, PrSlug}, {None}, {FALSE}, {None}, {NoDomain})

NextDomain == NextResolve(DomainArgs)

SpecDomain == InitDomain /\ [][NextDomain]_vars

\* resolve_path(): the assembly of the path from every argument
InitPath ==
    /\ World(Hierarchies({"T", "S"}, FALSE), DomainTables(DomainPatterns, FALSE),
             SingleVersionTables, VersionTables({ABSENT}),
             Settings(BOOLEAN, {PublicDomainName}, {FALSE}))
    /\ Idle

PathArgs ==
    Args(Projects, {FALSE}, Filenames, {"None"}, {None, PrSlug},
         {None, <<"z", "z">>}, BOOLEAN, {None, <<"s", "u", "b">>},
         {NoDomain, CallerCname})

NextPath == ResolvePath(PathArgs)

SpecPath == InitPath /\ [][NextPath]_vars

\* resolve_path(): the walk, over every shape of hierarchy
InitWalk ==
    /\ World(Hierarchies(Kinds, TRUE), DomainTables(SUBSET Projects, FALSE),
             {[p \in Projects |-> FALSE]}, VersionTables({ABSENT}),
             Settings({FALSE}, {PublicDomainName}, {FALSE}))
    /\ Idle

WalkArgs ==
    Args(Projects, {FALSE}, {<<"x">>}, {"None"}, {None},
         {None, <<"z", "z">>}, {FALSE}, {None}, {NoDomain, CallerCname})

NextWalk == ResolvePath(WalkArgs)

SpecWalk == InitWalk /\ [][NextWalk]_vars

\* ------------------------------------------------------------------ claims
\* the hierarchy as the claims speak of it
Up(p) ==
    IF main_language_project[p] # NoProject THEN main_language_project[p]
    ELSE parent_relationship[p]

HopKind(p) ==
    IF p = NoProject THEN "none"
    ELSE IF main_language_project[p] # NoProject THEN "T"
    ELSE IF parent_relationship[p] # NoProject THEN "S"
    ELSE "none"

RECURSIVE UpN(_, _)
UpN(p, n) ==
    IF n = 0 \/ p = NoProject THEN p ELSE UpN(Up(p), n - 1)

Reach(p) == {UpN(p, n) : n \in 0..NumProjects} \ {NoProject}
AcyclicFrom(p) == UpN(p, NumProjects) = NoProject
Depth(p) == Cardinality(Reach(p)) - 1
Root(p) == UpN(p, Depth(p))
OnCycle(p) == \E n \in 1..NumProjects : UpN(p, n) = p
CycleLength(p) ==
    CHOOSE n \in 1..NumProjects :
        UpN(p, n) = p /\ \A m \in 1..(n - 1) : UpN(p, m) # p

StartsWith(s, pre) == Len(s) >= Len(pre) /\ SubSeq(s, 1, Len(pre)) = pre
EndsWith(s, suf) ==
    Len(s) >= Len(suf) /\ SubSeq(s, Len(s) - Len(suf) + 1, Len(s)) = suf

\* C1: the ascent of _get_canonical_project never makes more calls than there
\* are projects reachable from its input; started on a cycle of length k it
\* makes at most k calls; and the project it returns is one it visited.
C1_CycleTermination ==
    (op = "canonical") =>
        /\ calls <= Cardinality(Reach(canon_input))
        /\ OnCycle(canon_input) => calls <= CycleLength(canon_input)
        /\ pc = "returned" =>
              /\ canonical_project \in projects
              /\ canonical_project \in Reach(canon_input)

C1_Witness ==
    /\ op = "canonical" /\ pc = "returned" /\ round = 1
    /\ OnCycle(canon_input) /\ CycleLength(canon_input) = 3
    /\ calls = 3
    /\ canonical_project # canon_input

\* C2: when the chain above p has no cycle, the canonical project of the
\* canonical project of p is the canonical project of p.
C2_Idempotence ==
    (op = "canonical" /\ round = 2 /\ pc = "returned"
        /\ AcyclicFrom(args.project))
    => canonical_project = first_canonical

C2_Witness ==
    /\ op = "canonical" /\ round = 2 /\ pc = "returned"
    /\ AcyclicFrom(args.project)
    /\ Depth(args.project) >= 2
    /\ first_canonical = Root(args.project)
    /\ canonical_project = first_canonical

\* what the claims call the external flag: the caller's, else the stored type
\* of the version
ExternalFlag ==
    IF args.external = "None"
    THEN versions[args.project][IF args.version_slug = None THEN DefaultVersion
                                ELSE args.version_slug] = EXTERNAL
    ELSE args.external = "True"

\* h is s with every underscore turned into a hyphen
IsHyphenated(h, s) ==
    /\ Len(h) = Len(s)
    /\ \A i \in 1..Len(s) : h[i] = (IF s[i] = "_" THEN "-" ELSE s[i])

SubdomainRouting == settings.USE_SUBDOMAIN /\ settings.PUBLIC_DOMAIN # None
DomainChosen == op = "resolve" /\ pc \in {"path", "done"}

\* C3: the domain of resolve() is the external name of the canonical project
\* when the external flag is set; else the canonical project's custom domain
\* when it has one; else the generated subdomain when subdomain routing is
\* enabled; else the production domain.
C3_DomainPriority ==
    DomainChosen =>
        LET c == Root(args.project)
            v == IF args.version_slug = None THEN DefaultVersion
                 ELSE args.version_slug
            h == SubSeq(domain, 1, Len(Slug(c)))
        IN IF ExternalFlag
           THEN /\ IsHyphenated(h, Slug(c))
                /\ domain = h \o <<"-", "-">> \o v \o <<".">>
                              \o RTD_EXTERNAL_VERSION_DOMAIN
           ELSE IF domains[c] # NoDomain
           THEN domain = Hostname(c)
           ELSE IF SubdomainRouting
           THEN /\ IsHyphenated(h, Slug(c))
                /\ domain = h \o <<".">> \o settings.PUBLIC_DOMAIN
           ELSE domain = PRODUCTION_DOMAIN

C3_Witness ==
    /\ DomainChosen /\ pc = "done"
    /\ ExternalFlag /\ args.external = "None"
    /\ Root(args.project) # args.project
    /\ domains[Root(args.project)] # NoDomain
    /\ SubdomainRouting
    /\ \E i \in 1..Len(Slug(Root(args.project))) :
          Slug(Root(args.project))[i] = "_"
    /\ \A i \in 1..Len(domain) : domain[i] # "_"

\* the three sources of https as C4 states them
CustomDomainServedHttps ==
    /\ ~ExternalFlag
    /\ domains[Root(args.project)] # NoDomain
    /\ domain = Hostname(Root(args.project))
    /\ domains[Root(args.project)].https

PublicDomainContained ==
    /\ settings.PUBLIC_DOMAIN \notin {None, << >>}
    /\ StrIn(settings.PUBLIC_DOMAIN, domain)

\* C4 as stated: https exactly when the custom domain is the served domain and
\* requires https, or the caller requires https, or the platform enforces
\* https and the domain contains the public or the external-version domain.
C4_AsStated ==
    DomainChosen =>
        (protocol = HTTPS <=>
            \/ CustomDomainServedHttps
            \/ args.require_https
            \/ /\ settings.PUBLIC_DOMAIN_USES_HTTPS
               /\ \/ PublicDomainContained
                  \/ StrIn(RTD_EXTERNAL_VERSION_DOMAIN, domain))

\* C4 amended: https exactly when the canonical project has a custom domain
\* that requires https (served or not), or the caller requires https, or the
\* platform enforces https, a non-empty public domain is configured, and the
\* domain contains the public or the external-version domain; else http.
C4_ProtocolAmended ==
    DomainChosen =>
        /\ protocol \in {HTTP, HTTPS}
        /\ protocol = HTTPS <=>
            \/ /\ domains[Root(args.project)] # NoDomain
               /\ domains[Root(args.project)].https
            \/ args.require_https
            \/ /\ settings.PUBLIC_DOMAIN_USES_HTTPS
               /\ settings.PUBLIC_DOMAIN \notin {None, << >>}
               /\ \/ PublicDomainContained
                  \/ StrIn(RTD_EXTERNAL_VERSION_DOMAIN, domain)

C4_Witness ==
    /\ DomainChosen /\ pc = "done"
    /\ ExternalFlag
    /\ settings.PUBLIC_DOMAIN_USES_HTTPS
    /\ settings.PUBLIC_DOMAIN = None
    /\ ~args.require_https
    /\ domains[Root(args.project)] = NoDomain
    /\ protocol = HTTP

PathBuilt == op \in {"resolve", "resolve_path"} /\ pc = "done"

\* the number of leading slashes of f
LeadingSlashes(f) ==
    CHOOSE k \in 0..Len(f) :
        /\ \A i \in 1..k : f[i] = "/"
        /\ k = Len(f) \/ f[k + 1] # "/"
Stripped(f) == SubSeq(f, LeadingSlashes(f) + 1, Len(f))

\* C5: the path is root, then projects/{alias}/ when an alias is pending,
\* then the filename alone (single version) or language/version/filename;
\* the filename enters without its leading slashes, so one more leading slash
\* gives the same path.
C5_PathShape ==
    PathBuilt =>
        LET root == IF Truthy(args.subdomain) \/ walked.cname # NoDomain
                       \/ SubdomainRouting
                    THEN <<"/">>
                    ELSE DocsPrefix \o walked.project_slug \o <<"/">>
            sub  == IF walked.subproject_slug # None
                    THEN ProjectsPrefix \o walked.subproject_slug \o <<"/">>
                    ELSE << >>
            v    == IF args.version_slug = None THEN DefaultVersion
                    ELSE args.version_slug
            f    == Stripped(args.filename)
            rest == IF single_version[args.project] \/ args.single_version
                    THEN f
                    ELSE walked.language \o <<"/">> \o v \o <<"/">> \o f
        IN /\ path = root \o sub \o rest
           /\ resolve_path([args EXCEPT !.filename = <<"/">> \o @]) = path

C5_Witness ==
    /\ PathBuilt /\ op = "resolve_path"
    /\ LeadingSlashes(args.filename) = 2 /\ Len(args.filename) = 5
    /\ walked.subproject_slug # None
    /\ ~single_version[args.project] /\ ~args.single_version
    /\ StartsWith(path, DocsPrefix)
    /\ EndsWith(path, <<"/", "a", "/", "b">>)

\* the first two projects above the input, and the hops the walk takes
P1 == Up(args.project)
P2 == IF P1 = NoProject THEN NoProject ELSE Up(P1)
Hop1 == HopKind(args.project)
Hop2 == IF Hop1 = "none" THEN "none" ELSE HopKind(P1)
LastHop == IF Hop2 # "none" THEN Hop2 ELSE Hop1

\* the cname of Step 1
Cname0 ==
    IF args.cname # NoDomain THEN args.cname ELSE domains[args.project]

KeepUnlessDomain(d, c) == IF d # NoDomain THEN d ELSE c

\* C6 as stated: a subproject hop replaces the cname only when the parent has
\* a canonical domain; otherwise the cname of Step 1 stays in effect and the
\* root of the path is "/".
C6_AsStated ==
    PathBuilt =>
        LET c1 == IF Hop1 = "S" THEN KeepUnlessDomain(domains[P1], Cname0)
                  ELSE Cname0
            c2 == IF Hop2 = "S" THEN KeepUnlessDomain(domains[P2], c1) ELSE c1
        IN /\ walked.cname = c2
           /\ c2 # NoDomain => ~StartsWith(path, DocsPrefix)

\* C6 amended: a subproject hop always replaces the cname by the parent's
\* canonical domain, which is absent when the parent has none; the cname of
\* Step 1 is then dropped, and the root of the path is "/" only if a cname is
\* left after the walk, a subdomain is given or subdomain routing is enabled.
C6_CnameAmended ==
    PathBuilt =>
        LET c1 == IF Hop1 = "S" THEN domains[P1] ELSE Cname0
            c2 == IF Hop2 = "S" THEN domains[P2] ELSE c1
        IN /\ walked.cname = c2
           /\ StartsWith(path, DocsPrefix) <=>
                 ~(c2 # NoDomain \/ Truthy(args.subdomain) \/ SubdomainRouting)

C6_Witness ==
    /\ PathBuilt
    /\ Hop1 = "S" /\ Hop2 = "none"
    /\ Cname0 # NoDomain /\ domains[P1] = NoDomain
    /\ walked.cname = NoDomain
    /\ StartsWith(path, DocsPrefix \o Slug(P1))

\* C7: in a multi-version path the language segment is the input project's
\* language whenever the walk took a translation hop, and otherwise the
\* caller's language if given, else the input project's language.
C7_LanguageSegment ==
    (PathBuilt /\ ~single_version[args.project] /\ ~args.single_version) =>
        LET lang == IF Hop1 = "T" \/ Hop2 = "T" THEN Language(args.project)
                    ELSE IF args.language # None THEN args.language
                    ELSE Language(args.project)
            v == IF args.version_slug = None THEN DefaultVersion
                 ELSE args.version_slug
        IN EndsWith(path, <<"/">> \o lang \o <<"/">> \o v \o <<"/">>
                              \o Stripped(args.filename))

C7_Witness ==
    /\ PathBuilt /\ ~single_version[args.project] /\ ~args.single_version
    /\ Hop1 = "S" /\ Hop2 = "T"
    /\ args.language # None
    /\ Language(P2) # Language(args.project)
    /\ walked.language = Language(args.project)

\* C8: after the walk an alias is pending, and the path holds
\* projects/{alias}/, exactly when the last hop taken was a subproject hop,
\* and the alias is that of the relation of that hop; a translation hop after
\* a subproject hop leaves no alias.
C8_AliasPending ==
    PathBuilt =>
        LET child == IF Hop2 # "none" THEN P1 ELSE args.project
        IN /\ walked.subproject_slug # None <=> LastHop = "S"
           /\ StrIn(ProjectsPrefix, path) <=> LastHop = "S"
           /\ LastHop = "S" =>
                 /\ walked.subproject_slug = Alias(child)
                 /\ StrIn(<<"/">> \o ProjectsPrefix \o Alias(child) \o <<"/">>,
                          path)

C8_Witness ==
    /\ PathBuilt
    /\ Hop1 = "S" /\ Hop2 = "T"
    /\ walked.subproject_slug = None
    /\ ~StrIn(ProjectsPrefix, path)

\* C9: on a chain without a cycle the walk ends on the canonical project when
\* the root is at most two hops above the input; when it is further, the walk
\* ends exactly two hops up and the canonical project is still the root.
C9_WalkVersusAscent ==
    (op = "resolve" /\ pc = "done" /\ AcyclicFrom(args.project)) =>
        /\ canonical_project = Root(args.project)
        /\ IF Depth(args.project) <= 2
           THEN /\ walked.current_project = canonical_project
                /\ walked.project_slug = Slug(canonical_project)
           ELSE /\ walked.current_project = UpN(args.project, 2)
                /\ walked.project_slug = Slug(UpN(args.project, 2))
                /\ walked.current_project # canonical_project

C9_Witness ==
    /\ op = "resolve" /\ pc = "done" /\ AcyclicFrom(args.project)
    /\ Depth(args.project) = 3
    /\ Hop1 = "T" /\ Hop2 = "S"
    /\ parent_relationship[args.project] # NoProject
    /\ canonical_project = UpN(args.project, 3)
    /\ walked.current_project = UpN(args.project, 2)

\* C10: for a version that is not external and a call without subdomain or
\* cname, the path starts with /docs/{project_slug}/ exactly when the domain
\* is the production domain (stated here for the chains without a cycle).
C10_DomainAndRootAgree ==
    (op = "resolve" /\ pc = "done" /\ ~external
        /\ ~Truthy(args.subdomain) /\ args.cname = NoDomain
        /\ AcyclicFrom(args.project)) =>
        (StartsWith(path, DocsPrefix) <=> domain = PRODUCTION_DOMAIN)

====
